---- MODULE Spec2Model ----
(***************************************************************************)
(* Model of mister_core's storage layer: Channel<T> and Image<T>           *)
(* (src/mister_core/src/image.rs) and the RGBA format built on them        *)
(* (src/mister_core/src/format/rgba.rs).                                   *)
(*                                                                         *)
(* Vec<T> is a TLA+ sequence; the code's 0-based index i is element i+1.   *)
(* f32 samples are modelled in tenths (10 is 1.0, 5 is 0.5, -5 is -0.5,    *)
(* 15 is 1.5) plus one NaN value, with IEEE comparisons: every ordered     *)
(* comparison with NaN is false.                                           *)
(***************************************************************************)
EXTENDS Integers, Sequences, FiniteSets, TLC

VARIABLES
    chan,       \* a standalone Channel<T>: [data, default]
    iter,       \* a ChannelIterator over chan: [live, at]
    yielded,    \* the items the iterator has returned so far, in order
    img,        \* a standalone Image<T>: [channels, len]
    image,      \* RgbaImage.image : Image<f32>
    channels,   \* RgbaImage.channels : [bool; 4], the visibility flags
    width,      \* RgbaImage.width
    height,     \* RgbaImage.height
    ops,        \* number of set_pixel and channel_mut().write calls made so far
    shadow,     \* per coordinate of the RgbaImage: the color last given to a
                \* successful set_pixel there, and whether a sample there was
                \* written through channel_mut since
    last,       \* the most recent call: its name, arguments, result, pre-state
                \* (of an RgbaImage: the most recent set_pixel or write call)
    prev        \* the call before it

vars == <<chan, iter, yielded, img, image, channels, width, height, ops, shadow, last, prev>>

\* ------------------------------------------------------------------ bounds
MaxLen == 3
MaxImgLen == 2
MaxChannels == 2
MaxOps == 2

\* the shapes (width, height) an RgbaImage is constructed with
Dims == {<<0, 0>>, <<0, 2>>, <<2, 0>>, <<1, 1>>, <<1, 2>>, <<2, 2>>}

\* ------------------------------------------------------------ f32 samples
\* 0.0 and 1.0, the bounds validate checks; NaN stands outside the order
Zero == 0
One == 10
NaN == 99

\* values of the generic sample type T used for a Channel<T> and an Image<T>
TVals == {0, 1, 2}
ImgVals == {0, 1}

\* the (channel, f32 value) pairs written directly through channel_mut: above
\* the range, below it, and NaN
RawWrites == {<<"Red", 15>>, <<"Green", NaN>>, <<"Alpha", 0 - 5>>}

\* x > y and x < y on f32
F32Gt(x, y) == x # NaN /\ y # NaN /\ x > y
F32Lt(x, y) == x # NaN /\ y # NaN /\ x < y

\* "lies in the inclusive range [lo, hi]"
InRange(x, lo, hi) == x # NaN /\ lo <= x /\ x <= hi

\* -------------------------------------------------------------- Vec<T>
None == [some |-> FALSE, v |-> 0]
Some(x) == [some |-> TRUE, v |-> x]

\* vec![e; n]
VecRepeat(e, n) == [k \in 1..n |-> e]

\* Vec::get(i)
VecGet(s, i) == IF i < Len(s) THEN Some(s[i + 1]) ELSE None

\* Vec::remove(i), i < len
VecRemove(s, i) == SubSeq(s, 1, i) \o SubSeq(s, i + 2, Len(s))

\* Vec::insert(i, e), i <= len
VecInsert(s, i, e) == SubSeq(s, 1, i) \o <<e>> \o SubSeq(s, i + 1, Len(s))

\* Vec::truncate(n)
VecTruncate(s, n) == IF n < Len(s) THEN SubSeq(s, 1, n) ELSE s

\* ------------------------------------------------------------ Channel<T>
Channel_new(default, x) == [data |-> VecRepeat(default, x), default |-> default]

Channel_len(c) == Len(c.data)

\* faulty variant of Channel_write: the new value is pushed at the end
Channel_write_push(c, i, d) ==
    [c EXCEPT !.data = Append(VecRemove(c.data, i), d)]

\* Channel::write: self.data.remove(i); self.data.insert(i, data)
Channel_write(c, i, d) ==
    [c EXCEPT !.data = VecInsert(VecRemove(c.data, i), i, d)]

Channel_get(c, i) == VecGet(c.data, i)

\* get_mut(i).map(|x| *x = d): Some(()) and the sample replaced, or None
Channel_get_mut_set(c, i, d) ==
    IF i < Len(c.data)
    THEN [ret |-> Some(0), chan |-> [c EXCEPT !.data[i + 1] = d]]
    ELSE [ret |-> None, chan |-> c]

\* faulty variant of Channel_resize: grows with the old last sample
Channel_resize_stale(c, new_len) ==
    LET t == VecTruncate(c.data, new_len)
        fill == IF Len(c.data) > 0 THEN c.data[Len(c.data)] ELSE c.default
    IN  IF Len(t) < new_len
        THEN [c EXCEPT !.data = t \o VecRepeat(fill, new_len - Len(t))]
        ELSE [c EXCEPT !.data = t]

\* Channel::_resize, and Channel::resize which calls it and returns self
Channel_resize(c, new_len) ==
    LET t == VecTruncate(c.data, new_len)
    IN  IF Len(t) < new_len
        THEN [c EXCEPT !.data = t \o VecRepeat(c.default, new_len - Len(t))]
        ELSE [c EXCEPT !.data = t]

\* Channel::iter
Channel_iter == [live |-> TRUE, at |-> 0]

NoIter == [live |-> FALSE, at |-> 0]

\* ChannelIterator::next: the new position and the item returned
ChannelIterator_next(c, at) ==
    LET at1 == at + 1
    IN  [at |-> at1,
         ret |-> IF at1 - 1 >= Channel_len(c) THEN None ELSE Channel_get(c, at1 - 1)]

\* ChannelIterator::size_hint
ChannelIterator_size_hint(c, at) == <<Channel_len(c), Some(Channel_len(c))>>

\* the items of c from position at on, as repeated next() calls return them
RECURSIVE IterItems(_, _)
IterItems(c, at) ==
    LET n == ChannelIterator_next(c, at)
    IN  IF n.ret.some THEN <<n.ret.v>> \o IterItems(c, n.at) ELSE <<>>

\* c.iter().cloned().collect()
Channel_items(c) == IterItems(c, Channel_iter.at)

\* -------------------------------------------------------------- Image<T>
Image_new(len) == [channels |-> <<>>, len |-> len]

Image_create_channel(im, default) ==
    [im EXCEPT !.channels = Append(@, Channel_new(default, im.len))]

Image_channel(im, i) == VecGet(im.channels, i)

Image_count(im) == Len(im.channels)

Image_len(im) == im.len

\* faulty variant of Image_resize: only the first channel is resized
Image_resize_first(im, new_len) ==
    [channels |-> [k \in DOMAIN im.channels |->
                      IF k = 1 THEN Channel_resize(im.channels[k], new_len)
                      ELSE im.channels[k]],
     len |-> new_len]

\* Image::resize: self.len = new_len, then _resize on every channel
Image_resize(im, new_len) ==
    [channels |-> [k \in DOMAIN im.channels |-> Channel_resize(im.channels[k], new_len)],
     len |-> new_len]

\* image[c].write(i, d): IndexMut::index_mut(c) unwrapped, then Channel::write
Image_write(im, c, i, d) ==
    [im EXCEPT !.channels[c + 1] = Channel_write(Image_channel(im, c).v, i, d)]

\* ------------------------------------------------------------- RgbaImage
RgbaChannel == <<"Red", "Green", "Blue", "Alpha">>

to_channel(c) ==
    CASE c = "Red" -> 0
      [] c = "Green" -> 1
      [] c = "Blue" -> 2
      [] c = "Alpha" -> 3

\* RgbaImage::new: [image, channels, width, height]
RgbaImage_new(w, h) ==
    LET i0 == Image_new(w * h)
        i1 == Image_create_channel(i0, Zero)
        i2 == Image_create_channel(i1, Zero)
        i3 == Image_create_channel(i2, Zero)
        i4 == Image_create_channel(i3, One)
    IN  [image |-> i4, channels |-> <<FALSE, FALSE, FALSE, FALSE>>,
         width |-> w, height |-> h]

\* the RgbaImage the variables hold
self == [image |-> image, channels |-> channels, width |-> width, height |-> height]

\* red(), green(), blue(), alpha() and their _mut forms; ImageFormat::channel
channel(s, c) == Image_channel(s.image, to_channel(c)).v

\* is_red_visible() ... ; ImageFormat::is_channel_visible
is_channel_visible(s, c) == s.channels[to_channel(c) + 1]

set_channel_visible(s, c, enabled) ==
    [s EXCEPT !.channels[to_channel(c) + 1] = enabled]

\* palette: Colora::rgb(r, g, b, a)
Colora_rgb(r, g, b, a) == <<r, g, b, a>>

\* palette: clamp(v, 0.0, 1.0)
clamp(v) == IF F32Lt(v, Zero) THEN Zero ELSE IF F32Gt(v, One) THEN One ELSE v

\* faulty variant of to_pixel: red and blue swapped
to_pixel_bgra(c) == <<clamp(c[3]), clamp(c[2]), clamp(c[1]), clamp(c[4])>>

\* Into::<Rgba>::into(c).to_pixel(): the components, each clamped to [0.0, 1.0]
to_pixel(c) == <<clamp(c[1]), clamp(c[2]), clamp(c[3]), clamp(c[4])>>

Ok(v) == [ok |-> TRUE, v |-> v]
OutOfBounds(x, y) == [ok |-> FALSE, kind |-> "OutOfBounds", x |-> x, y |-> y]
MissingData(c, x, y) == [ok |-> FALSE, kind |-> "MissingData", chan |-> c, x |-> x, y |-> y]

\* faulty variant of loc: column-major addressing
loc_colmajor(s, x, y) == x * s.height + y

\* let loc = y*self.width() + x
loc(s, x, y) == y * s.width + x

\* faulty variant of in_bounds: off by one at the far edge
in_bounds_off(s, x, y) == ~(x > s.width \/ y > s.height)

\* the negation of pixel's and set_pixel's guard x >= width || y >= height
in_bounds(s, x, y) == ~(x >= s.width \/ y >= s.height)

\* faulty variant of invisible_default: 0.0 for Alpha too
invisible_default_zero(c) == Zero

\* the substitute pixel() uses for an invisible channel
invisible_default(c) == IF c = "Alpha" THEN One ELSE Zero

\* faulty variant of component: the visibility flag is ignored
component_stored(s, c, l) == Channel_get(channel(s, c), l)

\* one component of pixel(): the stored sample if visible, else the substitute
component(s, c, l) ==
    IF is_channel_visible(s, c) THEN Channel_get(channel(s, c), l)
    ELSE Some(invisible_default(c))

pixel(s, x, y) ==
    IF ~in_bounds(s, x, y) THEN OutOfBounds(x, y)
    ELSE LET l == loc(s, x, y)
             r == component(s, "Red", l)
             g == component(s, "Green", l)
             b == component(s, "Blue", l)
             a == component(s, "Alpha", l)
         IN  IF ~r.some THEN MissingData("Red", x, y)
             ELSE IF ~g.some THEN MissingData("Green", x, y)
             ELSE IF ~b.some THEN MissingData("Blue", x, y)
             ELSE IF ~a.some THEN MissingData("Alpha", x, y)
             ELSE Ok(Colora_rgb(r.v, g.v, b.v, a.v))

\* channel_mut(c).get_mut(l).map(|x| *x = d) inside the image
put(im, c, l, d) ==
    LET r == Channel_get_mut_set(Image_channel(im, to_channel(c)).v, l, d)
    IN  [ret |-> r.ret, image |-> [im EXCEPT !.channels[to_channel(c) + 1] = r.chan]]

\* set_pixel: the result and the image it leaves; a `?` returns at the first
\* channel that cannot be written, keeping the writes already made
set_pixel(s, x, y, c) ==
    IF ~in_bounds(s, x, y) THEN [ret |-> OutOfBounds(x, y), image |-> s.image]
    ELSE LET l == loc(s, x, y)
             p == to_pixel(c)
             w1 == put(s.image, "Red", l, p[1])
             w2 == put(w1.image, "Green", l, p[2])
             w3 == put(w2.image, "Blue", l, p[3])
             w4 == put(w3.image, "Alpha", l, p[4])
         IN  IF ~w1.ret.some THEN [ret |-> MissingData("Red", x, y), image |-> w1.image]
             ELSE IF ~w2.ret.some THEN [ret |-> MissingData("Green", x, y), image |-> w2.image]
             ELSE IF ~w3.ret.some THEN [ret |-> MissingData("Blue", x, y), image |-> w3.image]
             ELSE IF ~w4.ret.some THEN [ret |-> MissingData("Alpha", x, y), image |-> w4.image]
             ELSE [ret |-> Ok(0), image |-> w4.image]

\* the closure of validate's find: **x > 1.0 || **x < 0.0
violates(x) == F32Gt(x, One) \/ F32Lt(x, Zero)

\* iter().find(violates) from iterator position at
RECURSIVE find_violation(_, _)
find_violation(c, at) ==
    LET n == ChannelIterator_next(c, at)
    IN  IF ~n.ret.some THEN None
        ELSE IF violates(n.ret.v) THEN n.ret
        ELSE find_violation(c, n.at)

InvalidData(got, lower, upper, inclusive) ==
    [ok |-> FALSE, got |-> got, lower |-> lower, upper |-> upper, inclusive |-> inclusive]

\* validate's loop over 0..self.image.count(), from channel i on
RECURSIVE validate_from(_, _)
validate_from(s, i) ==
    IF i >= Image_count(s.image) THEN Ok(0)
    ELSE LET v == find_violation(Image_channel(s.image, i).v, Channel_iter.at)
         IN  IF v.some THEN InvalidData(v.v, Zero, One, TRUE)
             ELSE validate_from(s, i + 1)

validate(s) == validate_from(s, 0)

Min(a, b) == IF a < b THEN a ELSE b

\* data(): the four iterators zipped, which ends with the shortest
data(s) ==
    LET r == Channel_items(channel(s, "Red"))
        g == Channel_items(channel(s, "Green"))
        b == Channel_items(channel(s, "Blue"))
        a == Channel_items(channel(s, "Alpha"))
        n == Min(Min(Len(r), Len(g)), Min(Len(b), Len(a)))
    IN  [k \in 1..n |-> <<r[k], g[k], b[k], a[k]>>]

\* colors given to set_pixel: two with every component in [0.0, 1.0], one without
Colors == {<<5, 2, 7, 10>>, <<10, 5, 0, 3>>, <<15, 0 - 5, 5, 10>>}

\* ================================================================ state
NoCall == [op |-> "none"]
Unset == [c |-> <<>>, raw |-> FALSE]

ChanIdle ==
    /\ chan = Channel_new(0, 0)
    /\ iter = NoIter
    /\ yielded = <<>>

ImgIdle == img = Image_new(0)

RgbaIdle ==
    /\ image = RgbaImage_new(0, 0).image
    /\ channels = RgbaImage_new(0, 0).channels
    /\ width = 0
    /\ height = 0
    /\ ops = 0
    /\ shadow = <<>>

chanVars == <<chan, iter, yielded>>
rgbaVars == <<image, channels, width, height, ops, shadow>>

\* ------------------------------------------------- a Channel<T> on its own
\* let chan = Channel::new(default, x)
InitChan ==
    /\ \E default \in TVals, x \in 0..MaxLen : chan = Channel_new(default, x)
    /\ iter = NoIter
    /\ yielded = <<>>
    /\ ImgIdle
    /\ RgbaIdle
    /\ last = [op |-> "new"]
    /\ prev = NoCall

\* chan.write(i, d) with i < len (a larger i panics in Vec::remove); the
\* exclusive borrow rules out a live iterator
ChanWrite(i, d) ==
    /\ ~iter.live
    /\ i < Channel_len(chan)
    /\ chan' = Channel_write(chan, i, d)
    /\ last' = [op |-> "write", i |-> i, d |-> d, pre |-> chan.data]
    /\ prev' = last
    /\ UNCHANGED <<iter, yielded, img, rgbaVars>>

\* chan = chan.resize(new_len); resize takes the channel by value
ChanResize(new_len) ==
    /\ ~iter.live
    /\ chan' = Channel_resize(chan, new_len)
    /\ last' = [op |-> "resize", n |-> new_len, pre |-> chan.data]
    /\ prev' = last
    /\ UNCHANGED <<iter, yielded, img, rgbaVars>>

\* let it = chan.iter()
ChanIter ==
    /\ ~iter.live
    /\ iter' = Channel_iter
    /\ yielded' = <<>>
    /\ last' = [op |-> "iter"]
    /\ prev' = last
    /\ UNCHANGED <<chan, img, rgbaVars>>

\* it.next(); the position is bounded here, in the code it grows with every call
IterNext ==
    /\ iter.live
    /\ iter.at <= MaxLen + 1
    /\ LET n == ChannelIterator_next(chan, iter.at)
       IN  /\ iter' = [iter EXCEPT !.at = n.at]
           /\ yielded' = IF n.ret.some THEN Append(yielded, n.ret.v) ELSE yielded
           /\ last' = [op |-> "next", ret |-> n.ret]
    /\ prev' = last
    /\ UNCHANGED <<chan, img, rgbaVars>>

\* the iterator goes out of scope
IterDrop ==
    /\ iter.live
    /\ iter' = NoIter
    /\ yielded' = <<>>
    /\ last' = [op |-> "drop"]
    /\ prev' = last
    /\ UNCHANGED <<chan, img, rgbaVars>>

NextChan ==
    \/ \E i \in 0..MaxLen, d \in TVals : ChanWrite(i, d)
    \/ \E new_len \in 0..MaxLen : ChanResize(new_len)
    \/ ChanIter
    \/ IterNext
    \/ IterDrop

SpecChan == InitChan /\ [][NextChan]_vars

\* --------------------------------------------------- an Image<T> on its own
\* let img = Image::new(len)
InitImg ==
    /\ \E len \in 0..MaxImgLen : img = Image_new(len)
    /\ ChanIdle
    /\ RgbaIdle
    /\ last = [op |-> "new"]
    /\ prev = NoCall

\* img.create_channel(default)
ImgCreateChannel(default) ==
    /\ Image_count(img) < MaxChannels
    /\ img' = Image_create_channel(img, default)
    /\ last' = [op |-> "create_channel", default |-> default]
    /\ UNCHANGED <<chanVars, rgbaVars, prev>>

\* img.resize(new_len)
ImgResize(new_len) ==
    /\ img' = Image_resize(img, new_len)
    /\ last' = [op |-> "resize", n |-> new_len, pre |-> img.len]
    /\ UNCHANGED <<chanVars, rgbaVars, prev>>

\* img[c].write(i, d) with c < count and i < the channel's length
ImgWrite(c, i, d) ==
    /\ c < Image_count(img)
    /\ i < Channel_len(Image_channel(img, c).v)
    /\ img' = Image_write(img, c, i, d)
    /\ last' = [op |-> "write", c |-> c, i |-> i, d |-> d]
    /\ UNCHANGED <<chanVars, rgbaVars, prev>>

NextImg ==
    \/ \E default \in ImgVals : ImgCreateChannel(default)
    \/ \E new_len \in 0..MaxImgLen : ImgResize(new_len)
    \/ \E c \in 0..(MaxChannels - 1), i \in 0..MaxImgLen, d \in ImgVals : ImgWrite(c, i, d)

SpecImg == InitImg /\ [][NextImg]_vars

\* ------------------------------------------------------------ an RgbaImage
\* let image = RgbaImage::new(w, h)
Init ==
    /\ \E wh \in Dims : LET w == wh[1]  h == wh[2] IN
          /\ image = RgbaImage_new(w, h).image
          /\ channels = RgbaImage_new(w, h).channels
          /\ width = RgbaImage_new(w, h).width
          /\ height = RgbaImage_new(w, h).height
          /\ shadow = [xy \in (0..(w - 1)) \X (0..(h - 1)) |-> Unset]
    /\ ops = 0
    /\ ChanIdle
    /\ ImgIdle
    /\ last = [op |-> "new"]
    /\ prev = NoCall

\* image.set_channel_visible(&c, enabled)
SetChannelVisible(c, enabled) ==
    /\ channels' = set_channel_visible(self, c, enabled).channels
    /\ UNCHANGED <<chanVars, img, image, width, height, ops, shadow, last, prev>>

\* image.set_pixel(x, y, c), in bounds or not
SetPixel(x, y, c) ==
    /\ ops < MaxOps
    /\ LET r == set_pixel(self, x, y, c)
       IN  /\ image' = r.image
           /\ last' = [op |-> "set_pixel", x |-> x, y |-> y, c |-> c, ret |-> r.ret,
                        hid |-> (r.ret.ok /\ \A k \in 1..4 : ~channels[k])]
           /\ ops' = ops + 1
           /\ shadow' = IF r.ret.ok
                        THEN [shadow EXCEPT ![<<x, y>>] = [c |-> c, raw |-> FALSE]]
                        ELSE shadow
    /\ UNCHANGED <<chanVars, img, channels, width, height, prev>>

\* image.channel_mut(&c).write(i, v) with i < the channel's length
SampleWrite(c, i, v) ==
    /\ ops < MaxOps
    /\ i < Channel_len(channel(self, c))
    /\ image' = Image_write(image, to_channel(c), i, v)
    /\ ops' = ops + 1
    /\ shadow' = [shadow EXCEPT ![<<i % width, i \div width>>].raw = TRUE]
    /\ last' = [op |-> "write", c |-> c, i |-> i, v |-> v]
    /\ UNCHANGED <<chanVars, img, channels, width, height, prev>>

Next ==
    \/ \E c \in {"Red", "Green", "Blue", "Alpha"}, enabled \in BOOLEAN :
          SetChannelVisible(c, enabled)
    \/ \E x \in 0..width, y \in 0..height, c \in Colors : SetPixel(x, y, c)
    \/ \E cv \in RawWrites, i \in 0..(width * height) : SampleWrite(cv[1], i, cv[2])

Spec == Init /\ [][Next]_vars

\* ================================================================ claims
AllVisible == \A k \in 1..4 : channels[k]
NoneVisible == \A k \in 1..4 : ~channels[k]

\* the sample stored for channel number k (1 = Red .. 4 = Alpha) at index i
Stored(k, i) == image.channels[k].data[i + 1]

ColorInRange(c) == \A k \in 1..4 : InRange(c[k], Zero, One)

\* a color component brought into [0.0, 1.0]
Clamped(v) == IF InRange(v, Zero, One) THEN v ELSE IF v < Zero THEN Zero ELSE One

Coords == (0..(width - 1)) \X (0..(height - 1))

\* C1: in every state reachable from Image::new(n) by create_channel, resize
\* and in-range writes, every channel has length exactly Image::len().
C1_ChannelLengths ==
    \A k \in 1..Image_count(img) : Channel_len(img.channels[k]) = Image_len(img)

\* two channels, one of them written, then grown by resize
C1_Witness ==
    /\ Image_count(img) = 2
    /\ last.op = "resize"
    /\ last.n > last.pre
    /\ last.pre > 0
    /\ \E k \in 1..2 : img.channels[k].data[1] # img.channels[k].default
    /\ C1_ChannelLengths

\* C2: Channel::resize(n) returns a channel of length n that keeps the old
\* elements below min(old length, n) in order and holds the stored default
\* from the old length up to n; growing after a resize to k < n leaves the
\* default, not truncated data, at every index from k to n-1.
C2_Resize ==
    last.op = "resize" =>
        /\ Channel_len(chan) = last.n
        /\ \A i \in 0..(Min(Len(last.pre), last.n) - 1) :
              Channel_get(chan, i) = Some(last.pre[i + 1])
        /\ \A i \in Len(last.pre)..(last.n - 1) :
              Channel_get(chan, i) = Some(chan.default)
        /\ (prev.op = "resize" /\ prev.n < last.n) =>
              \A i \in prev.n..(last.n - 1) : Channel_get(chan, i) = Some(chan.default)

\* a shrink that cut off a non-default sample, followed by a grow
C2_Witness ==
    /\ prev.op = "resize"
    /\ prev.n < Len(prev.pre)
    /\ \E i \in (prev.n + 1)..Len(prev.pre) : prev.pre[i] # chan.default
    /\ last.op = "resize"
    /\ last.n > prev.n
    /\ prev.n > 0
    /\ C2_Resize

\* C3: for i < len(), write(i, v) leaves the length unchanged, leaves every
\* element at j # i unchanged and in place, and makes get(i) return v.
C3_Write ==
    last.op = "write" =>
        /\ Channel_len(chan) = Len(last.pre)
        /\ \A j \in 0..(Len(last.pre) - 1) :
              j # last.i => Channel_get(chan, j) = Some(last.pre[j + 1])
        /\ Channel_get(chan, last.i) = Some(last.d)

\* a write of a new value in the middle of a channel of three distinct samples
C3_Witness ==
    /\ last.op = "write"
    /\ Len(last.pre) = 3
    /\ last.i = 1
    /\ last.d # last.pre[2]
    /\ last.pre[1] # last.pre[2]
    /\ last.pre[2] # last.pre[3]
    /\ last.pre[1] # last.pre[3]
    /\ C3_Write

\* C4: a freshly constructed RgbaImage::new(w, h), all channels invisible,
\* reads (0, 0, 0, 1) at every in-bounds pixel, and validate() succeeds.
C4_Fresh ==
    (ops = 0 /\ NoneVisible) =>
        /\ \A xy \in Coords : pixel(self, xy[1], xy[2]) = Ok(<<Zero, Zero, Zero, One>>)
        /\ validate(self) = Ok(0)

C4_Witness ==
    /\ ops = 0
    /\ NoneVisible
    /\ width = 2
    /\ height = 2
    /\ pixel(self, 1, 1) = Ok(<<Zero, Zero, Zero, One>>)
    /\ validate(self).ok

\* C5: pixel(x, y) and set_pixel(x, y, c) fail exactly when x >= w or y >= h,
\* the failure is OutOfBounds(x, y), and in bounds neither returns
\* MissingData, whatever the visibility flags.
C5_Bounds ==
    /\ \A x \in 0..width, y \in 0..height :
          LET out == x >= width \/ y >= height
              p == pixel(self, x, y)
          IN  /\ ~p.ok <=> out
              /\ ~p.ok => p = OutOfBounds(x, y)
              /\ \A c \in Colors :
                    LET r == set_pixel(self, x, y, c).ret
                    IN  /\ ~r.ok <=> out
                        /\ ~r.ok => r = OutOfBounds(x, y)
    /\ last.op = "set_pixel" =>
          /\ ~last.ret.ok <=> (last.x >= width \/ last.y >= height)
          /\ ~last.ret.ok => last.ret = OutOfBounds(last.x, last.y)

\* set_pixel just failed at x = w with a channel visible, while the last valid
\* coordinate reads fine
C5_Witness ==
    /\ width = 2
    /\ height = 2
    /\ last.op = "set_pixel"
    /\ last.x = width
    /\ last.y = height - 1
    /\ last.ret = OutOfBounds(last.x, last.y)
    /\ channels[1]
    /\ ops = 2
    /\ pixel(self, width - 1, height - 1).ok
    /\ pixel(self, width, height - 1) = OutOfBounds(width, height - 1)

\* C6: with all four channels visible, after successful set_pixel calls with
\* colors in [0, 1], pixel(x, y) returns the color most recently set at
\* (x, y), or (0, 0, 0, 1) if that coordinate was never set.
C6_RoundTrip ==
    AllVisible =>
        \A xy \in Coords :
            (~shadow[xy].raw /\ (shadow[xy].c = <<>> \/ ColorInRange(shadow[xy].c))) =>
                pixel(self, xy[1], xy[2]) =
                    Ok(IF shadow[xy].c = <<>> THEN <<Zero, Zero, Zero, One>>
                       ELSE shadow[xy].c)

\* two coordinates set to different colors, a third never set
C6_Witness ==
    /\ AllVisible
    /\ \E a \in Coords, b \in Coords, n \in Coords :
          /\ a # b
          /\ shadow[a].c # <<>> /\ ColorInRange(shadow[a].c)
          /\ shadow[b].c # <<>> /\ ColorInRange(shadow[b].c)
          /\ shadow[a].c # shadow[b].c
          /\ shadow[n].c = <<>> /\ ~shadow[n].raw
          /\ pixel(self, a[1], a[2]) = Ok(shadow[a].c)
          /\ pixel(self, b[1], b[2]) = Ok(shadow[b].c)

\* FirstViolation: the out-of-range sample that comes first in channel order,
\* then lowest index
BadAt(k, i) == ~InRange(Stored(k, i), Zero, One)
AnyBad == \E k \in 1..4, i \in 0..(width * height - 1) : BadAt(k, i)
FirstBad ==
    LET k == CHOOSE k \in 1..4 :
                 /\ \E i \in 0..(width * height - 1) : BadAt(k, i)
                 /\ \A j \in 1..(k - 1), i \in 0..(width * height - 1) : ~BadAt(j, i)
        i == CHOOSE i \in 0..(width * height - 1) :
                 /\ BadAt(k, i)
                 /\ \A j \in 0..(i - 1) : ~BadAt(k, j)
    IN  Stored(k, i)

\* C7: validate() succeeds if and only if every sample of every channel lies
\* in [0.0, 1.0]; otherwise the error carries the first violating sample in
\* channel-then-index order, the bounds 0.0 and 1.0 and the inclusive flag.
C7_Validate ==
    /\ validate(self).ok <=> ~AnyBad
    /\ AnyBad => validate(self) = InvalidData(FirstBad, Zero, One, TRUE)

\* C8 as stated: a successful set_pixel stores the four components of c
\* themselves, whatever the flags; pixel reports the fixed default for an
\* invisible channel and the stored sample for a visible one.
C8_StoresGiven ==
    /\ (last.op = "set_pixel" /\ last.ret.ok) =>
          \A k \in 1..4 : Stored(k, last.y * width + last.x) = last.c[k]
    /\ \A xy \in Coords, k \in 1..4 :
          pixel(self, xy[1], xy[2]).v[k] =
              IF channels[k] THEN Stored(k, xy[2] * width + xy[1])
              ELSE IF k = 4 THEN One ELSE Zero
    /\ \A xy \in Coords, k \in 1..4 :
          (shadow[xy].c # <<>> /\ ~shadow[xy].raw /\ channels[k]) =>
              pixel(self, xy[1], xy[2]).v[k] = shadow[xy].c[k]

\* C8, amended: a successful set_pixel stores the four components of c, each
\* clamped to [0.0, 1.0], at index y*width + x whatever the flags; pixel
\* reports the fixed default for an invisible channel and the stored sample
\* for a visible one, so a channel made visible later shows what was written
\* while it was invisible.
C8_StoresClamped ==
    /\ (last.op = "set_pixel" /\ last.ret.ok) =>
          \A k \in 1..4 : Stored(k, last.y * width + last.x) = Clamped(last.c[k])
    /\ \A xy \in Coords, k \in 1..4 :
          pixel(self, xy[1], xy[2]).v[k] =
              IF channels[k] THEN Stored(k, xy[2] * width + xy[1])
              ELSE IF k = 4 THEN One ELSE Zero
    /\ \A xy \in Coords, k \in 1..4 :
          (shadow[xy].c # <<>> /\ ~shadow[xy].raw /\ channels[k]) =>
              pixel(self, xy[1], xy[2]).v[k] = Clamped(shadow[xy].c[k])

\* a color with out-of-range components was set while every channel was
\* invisible; Red was made visible afterwards and shows the clamped sample,
\* Green is still invisible and shows its default over a different sample
C8_Witness ==
    /\ width = 2
    /\ last.op = "set_pixel"
    /\ last.ret.ok
    /\ last.hid
    /\ ~ColorInRange(last.c)
    /\ channels[1]
    /\ ~channels[2]
    /\ pixel(self, last.x, last.y).v[1] = Clamped(last.c[1])
    /\ Clamped(last.c[1]) # Zero
    /\ pixel(self, last.x, last.y).v[2] = Zero
    /\ \E xy \in Coords : Stored(2, xy[2] * width + xy[1]) # Zero

\* C9: data() has exactly w*h entries in storage-index order; the entry at
\* y*w + x is the (Red, Green, Blue, Alpha) tuple of the samples stored
\* there, whatever the flags, hence what set_pixel(x, y, c) last wrote.
C9_Data ==
    LET d == data(self)
    IN  /\ Len(d) = width * height
        /\ \A xy \in Coords :
              LET i == xy[2] * width + xy[1]
              IN  /\ d[i + 1] = <<Stored(1, i), Stored(2, i), Stored(3, i), Stored(4, i)>>
                  /\ (shadow[xy].c # <<>> /\ ~shadow[xy].raw) =>
                        /\ \A k \in 1..4 : d[i + 1][k] = Clamped(shadow[xy].c[k])
                        /\ ColorInRange(shadow[xy].c) => d[i + 1] = shadow[xy].c

\* a 2x2 image whose pixel (1, 0) was set and whose pixel (0, 1) was not,
\* with a directly written sample elsewhere and mixed flags
C9_Witness ==
    /\ width = 2
    /\ height = 2
    /\ shadow[<<1, 0>>].c # <<>>
    /\ ~shadow[<<1, 0>>].raw
    /\ ColorInRange(shadow[<<1, 0>>].c)
    /\ shadow[<<0, 1>>].c = <<>>
    /\ \E xy \in Coords : shadow[xy].raw
    /\ channels[1]
    /\ ~channels[4]
    /\ data(self)[2] = shadow[<<1, 0>>].c
    /\ Len(data(self)) = 4

\* C10: iteration yields exactly len() items in index order and then ends,
\* and at every point the size the iterator reports equals the number of
\* items it has yet to yield.
C10_ExactSize ==
    iter.live =>
        LET remaining == Channel_len(chan) - Len(yielded)
        IN  /\ yielded = SubSeq(chan.data, 1, Len(yielded))
            /\ Len(yielded) = Min(iter.at, Channel_len(chan))
            /\ (last.op = "next" /\ ~last.ret.some) => remaining = 0
            /\ ChannelIterator_size_hint(chan, iter.at) = <<remaining, Some(remaining)>>

====
